---- MODULE Spec2Model ----
(***************************************************************************)
(* POTA Overpass cache: the cache-merge-filter engine of src/server.py and *)
(* the park feed helper of src/pota_csv_fetcher.py.                        *)
(*                                                                         *)
(* Python values are modelled as follows.  A dict is a function whose      *)
(* domain is its set of keys (a missing key is a key outside DOMAIN), a    *)
(* list is a sequence, None is the record None, a float is an integer      *)
(* (only the order of coordinates matters to the code).                    *)
(***************************************************************************)
EXTENDS Integers, Sequences, FiniteSets, TLC

VARIABLES
    cached_data,          \* server.py global: None or the published body
    last_cache_update,    \* server.py global: None or Time(t)
    cache_refresh_count,  \* server.py global
    cache_lock,           \* owner of the Lock: "free" or a thread name
    phase,                \* "startup" (module import), "serving", "dead"
    schedule_alive,       \* the thread of run_schedule is running
    ticks,                \* calls of fetch_overpass_data started so far
    refresh,              \* the running call of fetch_overpass_data
    pota_file,            \* content of pota_data.json, None when absent
    last_fetch_file,      \* content of last_fetch_time.txt, None when absent
    clock,                \* wall clock, in units of 30 minutes
    query_thread,         \* the thread serving query_data
    status_thread,        \* the thread serving cache_status
    reload_thread,        \* the thread serving force_reload
    written,              \* history: the call that last wrote each global
    sent,                 \* history: the response sent last, None before
    mergeCall,            \* one call of merge_pota_data, inputs and result
    filterCall,           \* one call of filter_data on a given cache
    parseCall             \* one call of parse_query

cacheVars == <<cached_data, last_cache_update, cache_refresh_count>>
diskVars == <<pota_file, last_fetch_file>>
unitVars == <<mergeCall, filterCall, parseCall>>

vars == <<cached_data, last_cache_update, cache_refresh_count, cache_lock,
          phase, schedule_alive, ticks, refresh, pota_file, last_fetch_file,
          clock, query_thread, status_thread, reload_thread, written, sent,
          mergeCall, filterCall, parseCall>>

----------------------------------------------------------------------------
(* Python values *)

None == [py |-> "None"]

POTA == "communication:amateur_radio:pota"

Has(d, k) == k \in DOMAIN d

\* d[k] = v on a dict
Put(d, k, v) == [x \in (DOMAIN d) \cup {k} |-> IF x = k THEN v ELSE d[x]]

EmptyDict == [x \in {} |-> None]

IsDict(v) == v # None

Time(t) == [time |-> t]

----------------------------------------------------------------------------
(* Bounds of the model *)

MaxOsm == 2      \* elements in an Overpass body given to the merge
MaxFeed == 2     \* records in a park feed given to the merge
MaxSnap == 2     \* elements in a cache given to the filter
MaxCoord == 2    \* coordinates given to the filter range over 0..MaxCoord
MaxRaw == 3      \* length of the arbitrary query texts given to the parser
MaxFields == 5   \* fields of the parenthesized lists given to the parser

----------------------------------------------------------------------------
(* merge_pota_data *)

HasPota(element) == Has(element, "tags") /\ Has(element.tags, POTA)

\* pota_refs of lines 42-46
RECURSIVE PotaRefs(_)
PotaRefs(elements) ==
    IF elements = <<>> THEN {}
    ELSE LET element == Head(elements)
         IN  (IF HasPota(element) THEN {element.tags[POTA]} ELSE {})
             \cup PotaRefs(Tail(elements))

\* pota_names of lines 41-48: a later record overwrites an earlier one
RECURSIVE PotaNames(_, _)
PotaNames(elements, names) ==
    IF elements = <<>> THEN names
    ELSE LET element == Head(elements)
         IN  PotaNames(Tail(elements),
                 IF HasPota(element) /\ Has(element.tags, "name")
                 THEN Put(names, element.tags[POTA], element.tags["name"])
                 ELSE names)

\* Mutant: line 55 forgotten, every element with a POTA tag is kept
RECURSIVE FilterOverpassKeepAll(_, _, _)
FilterOverpassKeepAll(elements, pota_refs, pota_names) ==
    IF elements = <<>> THEN <<>>
    ELSE LET element == Head(elements)
             rest == FilterOverpassKeepAll(Tail(elements), pota_refs,
                                           pota_names)
         IN  IF HasPota(element)
             THEN <<IF Has(pota_names, element.tags[POTA])
                    THEN [element EXCEPT
                             !.tags = Put(element.tags, "name",
                                          pota_names[element.tags[POTA]])]
                    ELSE element>> \o rest
             ELSE rest

\* Mutant: line 58 as setdefault, the feed name only fills a missing name
RECURSIVE FilterOverpassKeepName(_, _, _)
FilterOverpassKeepName(elements, pota_refs, pota_names) ==
    IF elements = <<>> THEN <<>>
    ELSE LET element == Head(elements)
             rest == FilterOverpassKeepName(Tail(elements), pota_refs,
                                            pota_names)
         IN  IF HasPota(element) /\ element.tags[POTA] \in pota_refs
             THEN <<IF Has(pota_names, element.tags[POTA])
                       /\ ~Has(element.tags, "name")
                    THEN [element EXCEPT
                             !.tags = Put(element.tags, "name",
                                          pota_names[element.tags[POTA]])]
                    ELSE element>> \o rest
             ELSE rest

\* the loop of lines 51-59
RECURSIVE FilterOverpass(_, _, _)
FilterOverpass(elements, pota_refs, pota_names) ==
    IF elements = <<>> THEN <<>>
    ELSE LET element == Head(elements)
             rest == FilterOverpass(Tail(elements), pota_refs, pota_names)
         IN  IF HasPota(element) /\ element.tags[POTA] \in pota_refs
             THEN LET pota_ref == element.tags[POTA]
                  IN  <<IF Has(pota_names, pota_ref)
                        THEN [element EXCEPT
                                 !.tags = Put(element.tags, "name",
                                              pota_names[pota_ref])]
                        ELSE element>> \o rest
             ELSE rest

\* the loop of lines 67-71
RECURSIVE AppendMissing(_, _)
AppendMissing(elements, overpass_refs) ==
    IF elements = <<>> THEN <<>>
    ELSE LET element == Head(elements)
             rest == AppendMissing(Tail(elements), overpass_refs)
         IN  IF HasPota(element) /\ element.tags[POTA] \notin overpass_refs
             THEN <<element>> \o rest
             ELSE rest

\* Mutant: line 34 without its last test, an empty feed is merged
PotaEmptyOnlyNone(pota_data) ==
    \/ pota_data = None
    \/ ~Has(pota_data, "elements")

\* line 34
PotaEmpty(pota_data) ==
    \/ pota_data = None
    \/ ~Has(pota_data, "elements")
    \/ pota_data.elements = <<>>

\* The outcome of merge_pota_data(overpass_data, pota_data): the value it
\* returns, or the exception it raises.
merge_pota_data(overpass_data, pota_data) ==
    IF PotaEmpty(pota_data)
    THEN [raised |-> "no", value |-> overpass_data]
    ELSE IF ~IsDict(overpass_data)
    THEN [raised |-> "TypeError", value |-> None]
    ELSE LET with_elements ==
                 IF Has(overpass_data, "elements") THEN overpass_data
                 ELSE Put(overpass_data, "elements", <<>>)
             pota_refs == PotaRefs(pota_data.elements)
             pota_names == PotaNames(pota_data.elements, EmptyDict)
             filtered_elements ==
                 FilterOverpass(with_elements.elements, pota_refs, pota_names)
             overpass_refs == PotaRefs(filtered_elements)
         IN  [raised |-> "no",
              value |-> Put(with_elements, "elements",
                            filtered_elements
                            \o AppendMissing(pota_data.elements, overpass_refs))]

----------------------------------------------------------------------------
(* add_pota_tag_to_subelements and filter_data *)

GetOr(d, k, default) == IF Has(d, k) THEN d[k] ELSE default

\* Mutant: the POTA tag is written only into a sub-element without tags
TagSubUntagged(sub, pota_value) ==
    IF Has(sub, "tags") THEN sub
    ELSE Put(sub, "tags", (POTA :> pota_value))

\* lines 113-115 and 120-122: the sub-element gets a tags dict when it has
\* none, then the POTA tag is written into it
TagSub(sub, pota_value) ==
    Put(sub, "tags", Put(GetOr(sub, "tags", EmptyDict), POTA, pota_value))

\* Called only on an element that has a tags dict (line 108 raises KeyError
\* otherwise, see Visit).
add_pota_tag_to_subelements(element) ==
    LET pota_value == GetOr(element.tags, POTA, "yes")
    IN  IF element.type = "way"
        THEN IF Has(element, "geometry")
             THEN [element EXCEPT !.geometry =
                      [i \in DOMAIN element.geometry |->
                          TagSub(element.geometry[i], pota_value)]]
             ELSE element
        ELSE IF element.type = "relation"
        THEN IF Has(element, "members")
             THEN [element EXCEPT !.members =
                      [i \in DOMAIN element.members |->
                          IF element.members[i].type = "way"
                          THEN TagSub(element.members[i], pota_value)
                          ELSE element.members[i]]]
             ELSE element
        ELSE element

\* Mutant: the southern and western edges excluded
PointInBoxStrict(point, south, west, north, east) ==
    /\ Has(point, "lat") /\ Has(point, "lon")
    /\ south < point.lat /\ point.lat <= north
    /\ west < point.lon /\ point.lon <= east

\* south <= lat <= north and west <= lon <= east on a dict with optional
\* lat and lon (lines 135-137 and 147-149)
PointInBox(point, south, west, north, east) ==
    /\ Has(point, "lat") /\ Has(point, "lon")
    /\ south <= point.lat /\ point.lat <= north
    /\ west <= point.lon /\ point.lon <= east

\* Mutant: the bounds and the box intersect
BoundsInBoxOverlap(bounds, south, west, north, east) ==
    /\ bounds.minlat <= north /\ south <= bounds.maxlat
    /\ bounds.minlon <= east /\ west <= bounds.maxlon

\* lines 142-143
BoundsInBox(bounds, south, west, north, east) ==
    /\ \/ (south <= bounds.minlat /\ bounds.minlat <= north)
       \/ (south <= bounds.maxlat /\ bounds.maxlat <= north)
    /\ \/ (west <= bounds.minlon /\ bounds.minlon <= east)
       \/ (west <= bounds.maxlon /\ bounds.maxlon <= east)

\* Does the loop body of lines 133-151 append the element?
Selected(element, south, west, north, east) ==
    /\ Has(element, "type")
    /\ IF element.type = "node"
       THEN PointInBox(element, south, west, north, east)
       ELSE IF element.type \in {"way", "relation"}
       THEN IF Has(element, "bounds")
            THEN BoundsInBox(element.bounds, south, west, north, east)
            ELSE IF Has(element, "geometry")
            THEN \E i \in DOMAIN element.geometry :
                    PointInBox(element.geometry[i], south, west, north, east)
            ELSE FALSE
       ELSE FALSE

\* One iteration of the loop of line 132 on one element of the cache: the
\* element as the iteration leaves it in the cache, whether it was appended
\* to filtered_elements, and the exception raised if any.
Visit(element, south, west, north, east) ==
    IF ~Selected(element, south, west, north, east)
    THEN [element |-> element, appended |-> FALSE, raised |-> "no"]
    ELSE IF element.type = "node"
    THEN [element |-> element, appended |-> TRUE, raised |-> "no"]
    ELSE IF ~Has(element, "tags")
    THEN [element |-> element, appended |-> FALSE, raised |-> "KeyError"]
    ELSE [element |-> add_pota_tag_to_subelements(element),
          appended |-> TRUE, raised |-> "no"]

\* The loop of lines 131-151 from index i on.  elements is the list inside
\* the cache: the appended elements are the very objects of that list, so
\* a write to one is a write to both.
RECURSIVE FilterLoop(_, _, _, _, _, _, _)
FilterLoop(elements, i, filtered_elements, south, west, north, east) ==
    IF i > Len(elements)
    THEN [elements |-> elements, filtered_elements |-> filtered_elements,
          raised |-> "no"]
    ELSE LET v == Visit(elements[i], south, west, north, east)
             elements2 == [elements EXCEPT ![i] = v.element]
         IN  IF v.raised # "no"
             THEN [elements |-> elements2,
                   filtered_elements |-> filtered_elements,
                   raised |-> v.raised]
             ELSE FilterLoop(elements2, i + 1,
                      IF v.appended THEN Append(filtered_elements, v.element)
                      ELSE filtered_elements,
                      south, west, north, east)

\* Mutant: filtered_elements.insert(0, element) in place of append, the
\* result lists the elements last to first
filter_data_insert_first(data, south, west, north, east) ==
    IF data = None
    THEN [cache |-> data, raised |-> "no", value |-> None]
    ELSE IF ~Has(data, "elements")
    THEN [cache |-> data, raised |-> "KeyError", value |-> None]
    ELSE LET run == FilterLoop(data.elements, 1, <<>>,
                               south, west, north, east)
             n == Len(run.filtered_elements)
         IN  [cache |-> Put(data, "elements", run.elements),
              raised |-> run.raised,
              value |-> IF run.raised # "no" THEN None
                        ELSE [elements |->
                                 [i \in 1..n |->
                                     run.filtered_elements[n + 1 - i]],
                              version |-> "0.6",
                              generator |-> "Overpass API POTA Cache"]]

\* filter_data on the cache value data: the cache as the call leaves it, the
\* value returned and the exception raised if any.
filter_data(data, south, west, north, east) ==
    IF data = None
    THEN [cache |-> data, raised |-> "no", value |-> None]
    ELSE IF ~Has(data, "elements")
    THEN [cache |-> data, raised |-> "KeyError", value |-> None]
    ELSE LET run == FilterLoop(data.elements, 1, <<>>,
                               south, west, north, east)
         IN  [cache |-> Put(data, "elements", run.elements),
              raised |-> run.raised,
              value |-> IF run.raised # "no" THEN None
                        ELSE [elements |-> run.filtered_elements,
                              version |-> "0.6",
                              generator |-> "Overpass API POTA Cache"]]

----------------------------------------------------------------------------
(* parse_query.  A str is a sequence of one-character strings. *)

Digits == {"2", "8", "9"}
HexDigits == Digits \cup {"C"}

DigitVal(c) == IF c = "2" THEN 2 ELSE IF c = "8" THEN 8 ELSE 9

\* str.split(sep): the pieces between the occurrences of sep
RECURSIVE Split(_, _)
Split(s, sep) ==
    IF \A i \in DOMAIN s : s[i] # sep THEN <<s>>
    ELSE LET i == CHOOSE j \in DOMAIN s :
                      s[j] = sep /\ \A k \in 1..(j - 1) : s[k] # sep
         IN  <<SubSeq(s, 1, i - 1)>> \o Split(SubSeq(s, i + 1, Len(s)), sep)

\* One %XX escape of urllib.parse.unquote, over the hex digits of the
\* model: %28 %29 %2C are ( ) and the comma, %22 is the double quote and the
\* remaining pairs are bytes above 0x7F, which decode to characters that are
\* neither digits, signs nor white space; "C" stands for all of these.
Unescape(h1, h2) ==
    IF h1 = "2" /\ h2 = "8" THEN "("
    ELSE IF h1 = "2" /\ h2 = "9" THEN ")"
    ELSE IF h1 = "2" /\ h2 = "C" THEN ","
    ELSE "C"

\* urllib.parse.unquote: a % followed by two hex digits is decoded, any
\* other % is kept as it is
RECURSIVE unquote(_)
unquote(s) ==
    IF s = <<>> THEN <<>>
    ELSE IF s[1] = "%" /\ Len(s) >= 3 /\ s[2] \in HexDigits /\ s[3] \in HexDigits
    THEN <<Unescape(s[2], s[3])>> \o unquote(SubSeq(s, 4, Len(s)))
    ELSE <<s[1]>> \o unquote(Tail(s))

\* str.strip() as float() applies it
RECURSIVE LStrip(_)
LStrip(s) == IF s # <<>> /\ s[1] = " " THEN LStrip(Tail(s)) ELSE s

RECURSIVE RStrip(_)
RStrip(s) ==
    IF s # <<>> /\ s[Len(s)] = " " THEN RStrip(SubSeq(s, 1, Len(s) - 1)) ELSE s

RECURSIVE DecimalValue(_)
DecimalValue(s) ==
    IF s = <<>> THEN 0
    ELSE 10 * DecimalValue(SubSeq(s, 1, Len(s) - 1)) + DigitVal(s[Len(s)])

AllDigits(s) == s # <<>> /\ \A i \in DOMAIN s : s[i] \in Digits

\* float(s) accepts white space, an optional sign and digits
IsFloat(s) ==
    LET t == RStrip(LStrip(s))
    IN  \/ AllDigits(t)
        \/ t # <<>> /\ t[1] = "-" /\ AllDigits(Tail(t))

\* the value of float(s) when IsFloat(s)
float(s) ==
    LET t == RStrip(LStrip(s))
    IN  IF t[1] = "-" THEN 0 - DecimalValue(Tail(t)) ELSE DecimalValue(t)

\* parse_query(query): the bounding box, or None for both exceptions caught
\* at line 167 (IndexError of [1], ValueError of float or of the unpacking)
parse_query(query) ==
    LET decoded == IF \E i \in DOMAIN query : query[i] = "%"
                   THEN unquote(query) ELSE query
        pieces == Split(decoded, "(")
    IN  IF Len(pieces) < 2 THEN None
        ELSE LET bbox == Split(Split(pieces[2], ")")[1], ",")
             IN  IF Len(bbox) = 4 /\ \A i \in 1..4 : IsFloat(bbox[i])
                 THEN [south |-> float(bbox[1]), west |-> float(bbox[2]),
                       north |-> float(bbox[3]), east |-> float(bbox[4])]
                 ELSE None

----------------------------------------------------------------------------
(* pota_csv_fetcher.py.  A CSV row is a sequence of fields; the reference, *)
(* the name and the active flag are strings, the two coordinate fields are *)
(* sequences of characters as float() reads them.                          *)

FETCH_INTERVAL == 2    \* timedelta(hours=1), in units of 30 minutes

\* The loop body of lines 52-93 on one row: the element it appends, or None
\* when the row is skipped (inactive, short, empty or non-numeric
\* coordinates).
RowElement(row) ==
    IF Len(row) < 3 THEN None
    ELSE IF row[3] # "1" THEN None
    ELSE IF Len(row) < 7 THEN None
    ELSE IF row[6] = <<>> \/ row[7] = <<>> THEN None
    ELSE IF ~IsFloat(row[6]) \/ ~IsFloat(row[7]) THEN None
    ELSE [type |-> "node", lat |-> float(row[6]), lon |-> float(row[7]),
          tags |-> (POTA :> row[1] @@ "name" :> row[2]
                    @@ "pota:active" :> "1" @@ "unmapped_osm" :> "true")]

RECURSIVE ParseRows(_)
ParseRows(rows) ==
    IF rows = <<>> THEN <<>>
    ELSE LET element == RowElement(Head(rows))
         IN  (IF element = None THEN <<>> ELSE <<element>>)
             \o ParseRows(Tail(rows))

\* fetch_and_parse_csv on the response csv: None when requests.get, the
\* status check or the header row raise ("fail"), else the parsed result
\* (line 95).
ParsedCsv(csv) ==
    IF ~csv.ok THEN None
    ELSE [elements |-> ParseRows(csv.rows), version |-> "0.6",
          generator |-> "POTA CSV Parser"]

\* should_fetch_data at time now
should_fetch_data(file, now) ==
    \/ file = None
    \/ now - file.time >= FETCH_INTERVAL

\* load_data: json.load gives back the dict json.dump wrote (strings and
\* floats round-trip exactly), None when the file does not exist
load_data(file) == file

\* What update_pota_data returns once the feed has answered csv, lines
\* 132-138: the parsed feed, or the copy on disk when the fetch failed
FetchedPotaData(csv, file) ==
    LET data == ParsedCsv(csv)
    IN  IF data # None THEN data ELSE load_data(file)

----------------------------------------------------------------------------
(* What the two upstreams and the clients may send *)

MaxTicks == 2    \* calls of fetch_overpass_data in one run
MaxClock == 2    \* the clock stops advancing here

NodeA ==
    [type |-> "node", lat |-> 2, lon |-> 2,
     tags |-> (POTA :> "A" @@ "name" :> "osm A")]

WayB ==
    [type |-> "way",
     bounds |-> [minlat |-> 2, minlon |-> 2, maxlat |-> 8, maxlon |-> 8],
     geometry |-> <<[lat |-> 2, lon |-> 2], [lat |-> 8, lon |-> 8]>>,
     tags |-> (POTA :> "B" @@ "name" :> "osm B")]

\* Bodies of a 200 answer of Overpass that response.json() accepts: JSON
\* null, an object without elements, an object with elements.
OverpassBodies ==
    { None,
      [version |-> "0.6", generator |-> "Overpass API"],
      [version |-> "0.6", generator |-> "Overpass API",
       elements |-> <<NodeA, WayB>>] }

\* Outcomes of requests.get + raise_for_status + response.json(), lines 91-93
OverpassOutcomes ==
    { [kind |-> k] : k \in {"ConnectionError", "HTTPError", "NotJSON"} }
    \cup { [kind |-> "body", body |-> b] : b \in OverpassBodies }

RowA == <<"A", "Park A", "1", "", "", <<"2">>, <<"2">>>>
RowB == <<"B", "Park B", "1", "", "", <<"8">>, <<"-", "2">>>>
RowInactive == <<"C", "Park C", "0", "", "", <<"2">>, <<"2">>>>
RowNoCoords == <<"D", "Park D", "1", "", "", <<>>, <<"2">>>>

\* Answers of the CSV feed: a failure, or the rows after the header
CsvOutcomes ==
    { [ok |-> FALSE] }
    \cup { [ok |-> TRUE, rows |-> r] :
             r \in { <<>>, <<RowA, RowInactive>>, <<RowB, RowNoCoords>> } }

\* Query texts the clients send
PlainQuery == <<"C", "(", "2", ",", "2", ",", "8", ",", "8", ")">>
GroupedQuery == <<"(", "C", "(", "2", ",", "2", ",", "8", ",", "8", ")", ")">>
FarQuery == <<"C", "(", "9", ",", "9", ",", "9", ",", "9", ")">>

\* The arguments of a request: a dict with optional data and query
RequestArgs ==
    { EmptyDict,
      [data |-> PlainQuery],
      [data |-> GroupedQuery],
      [data |-> <<>>, query |-> FarQuery],
      [query |-> <<"C">>] }

----------------------------------------------------------------------------
(* The server *)

IdleUnits ==
    /\ mergeCall = [op |-> "none"]
    /\ filterCall = [op |-> "none"]
    /\ parseCall = [op |-> "none"]

IdleRefresh(fetch) ==
    [pc |-> "idle", fetch |-> fetch, overpass_data |-> None,
     pota_data |-> None]

\* Module import: the globals of lines 26-30, nothing on disk, the first
\* fetch_overpass_data() of line 262 not yet called
ServerInit ==
    /\ cached_data = None
    /\ last_cache_update = None
    /\ cache_refresh_count = 0
    /\ cache_lock = "free"
    /\ phase = "startup"
    /\ schedule_alive = FALSE
    /\ ticks = 0
    /\ refresh = IdleRefresh("none")
    /\ pota_file = None
    /\ last_fetch_file = None
    /\ clock = 0
    /\ query_thread = [pc |-> "idle"]
    /\ status_thread = [pc |-> "idle"]
    /\ reload_thread = [pc |-> "idle"]
    /\ written = [data |-> 0, time |-> 0, count |-> 0, snapshot |-> 0]
    /\ sent = None

Init == ServerInit /\ IdleUnits

\* Time passes between two calls of fetch_overpass_data; one call takes
\* less than a unit of the clock
AdvanceClock ==
    /\ clock < MaxClock
    /\ refresh.pc = "idle"
    /\ clock' = clock + 1
    /\ UNCHANGED <<cacheVars, cache_lock, phase, schedule_alive, ticks,
                   refresh, diskVars, query_thread, status_thread,
                   reload_thread, written, sent, unitVars>>

othersUnchanged ==
    UNCHANGED <<clock, query_thread, status_thread, reload_thread, sent,
                unitVars>>

\* fetch_overpass_data is entered (line 262 at import, then by the
\* scheduler thread) and takes the lock at line 87; requests.get of line 91
\* is in flight
BeginRefresh ==
    /\ refresh.pc = "idle"
    /\ ticks < MaxTicks
    /\ \/ phase = "startup"
       \/ phase = "serving" /\ schedule_alive
    /\ cache_lock = "free"
    /\ cache_lock' = "refresh"
    /\ ticks' = ticks + 1
    /\ refresh' = [IdleRefresh("none") EXCEPT !.pc = "overpass"]
    /\ UNCHANGED <<cacheVars, phase, schedule_alive, diskVars, written>>
    /\ othersUnchanged

\* fetch_overpass_data returns: the with block releases the lock; at import
\* start_scheduler() and the server follow
ReturnFromRefresh(fetch) ==
    /\ cache_lock' = "free"
    /\ refresh' = IdleRefresh(fetch)
    /\ phase' = "serving"
    /\ schedule_alive' = IF phase = "startup" THEN TRUE ELSE schedule_alive

\* an exception leaves fetch_overpass_data: the with block releases the
\* lock; at import the process ends, later the scheduler thread ends
RaiseFromRefresh(fetch) ==
    /\ cache_lock' = "free"
    /\ refresh' = IdleRefresh(fetch)
    /\ phase' = IF phase = "startup" THEN "dead" ELSE phase
    /\ schedule_alive' = FALSE

\* lines 91-93 and 104-105.  requests raises a RequestException for a
\* connection error and a bad status; for a body that is not JSON it raises
\* a subclass of RequestException (requests 2.27 and later) or a plain
\* ValueError (before), depending on the installed version.
OverpassResponse ==
    /\ refresh.pc = "overpass"
    /\ \E outcome \in OverpassOutcomes :
        \/ /\ outcome.kind \in {"ConnectionError", "HTTPError", "NotJSON"}
           /\ ReturnFromRefresh("failed")
        \/ /\ outcome.kind = "NotJSON"
           /\ RaiseFromRefresh("failed")
        \/ /\ outcome.kind = "body"
           /\ refresh' = [refresh EXCEPT
                             !.pc = "pota",
                             !.fetch = IF IsDict(outcome.body) THEN "ok"
                                       ELSE "failed",
                             !.overpass_data = outcome.body]
           /\ UNCHANGED <<cache_lock, phase, schedule_alive>>
    /\ UNCHANGED <<cacheVars, ticks, diskVars, written>>
    /\ othersUnchanged

\* update_pota_data() of line 96, force=False: lines 130-141 of the fetcher
\* up to the requests.get of line 42, or load_data() when the file on disk
\* is less than an hour old
UpdatePotaData ==
    /\ refresh.pc = "pota"
    /\ refresh' = IF should_fetch_data(last_fetch_file, clock)
                  THEN [refresh EXCEPT !.pc = "csv"]
                  ELSE [refresh EXCEPT !.pc = "merge",
                                       !.pota_data = load_data(pota_file)]
    /\ UNCHANGED <<cacheVars, cache_lock, phase, schedule_alive, ticks,
                   diskVars, written>>
    /\ othersUnchanged

\* The CSV feed answers: fetch_and_parse_csv(False) parses, saves the result
\* and the fetch time (lines 99-101); on a failure update_pota_data falls
\* back to load_data() (lines 134-136)
CsvResponse ==
    /\ refresh.pc = "csv"
    /\ \E csv \in CsvOutcomes :
        /\ IF ParsedCsv(csv) # None
           THEN /\ pota_file' = ParsedCsv(csv)
                /\ last_fetch_file' = Time(clock)
           ELSE UNCHANGED diskVars
        /\ refresh' = [refresh EXCEPT
                          !.pc = "merge",
                          !.pota_data = FetchedPotaData(csv, pota_file)]
    /\ UNCHANGED <<cacheVars, cache_lock, phase, schedule_alive, ticks,
                   written>>
    /\ othersUnchanged

\* line 97: cached_data = merge_pota_data(overpass_data, pota_data)
StoreMerged ==
    /\ refresh.pc = "merge"
    /\ LET m == merge_pota_data(refresh.overpass_data, refresh.pota_data)
       IN  IF m.raised # "no"
           THEN /\ RaiseFromRefresh(refresh.fetch)
                /\ UNCHANGED <<cached_data, written>>
           ELSE /\ cached_data' = m.value
                /\ written' = [written EXCEPT
                                  !.data = ticks,
                                  !.snapshot = IF m.value # None THEN ticks
                                               ELSE @]
                /\ refresh' = [refresh EXCEPT !.pc = "stamp"]
                /\ UNCHANGED <<cache_lock, phase, schedule_alive>>
    /\ UNCHANGED <<last_cache_update, cache_refresh_count, ticks, diskVars>>
    /\ othersUnchanged

\* line 99: last_cache_update = time.time()
StampUpdate ==
    /\ refresh.pc = "stamp"
    /\ last_cache_update' = Time(clock)
    /\ written' = [written EXCEPT !.time = ticks]
    /\ refresh' = [refresh EXCEPT !.pc = "count"]
    /\ UNCHANGED <<cached_data, cache_refresh_count, cache_lock, phase,
                   schedule_alive, ticks, diskVars>>
    /\ othersUnchanged

\* line 100: cache_refresh_count += 1
CountRefresh ==
    /\ refresh.pc = "count"
    /\ cache_refresh_count' = cache_refresh_count + 1
    /\ written' = [written EXCEPT !.count = ticks]
    /\ refresh' = [refresh EXCEPT !.pc = "log"]
    /\ UNCHANGED <<cached_data, last_cache_update, cache_lock, phase,
                   schedule_alive, ticks, diskVars>>
    /\ othersUnchanged

\* lines 101-103: len(cached_data['elements']) raises TypeError on None and
\* KeyError on a dict without elements; neither is a RequestException
LogRefresh ==
    /\ refresh.pc = "log"
    /\ IF cached_data # None /\ Has(cached_data, "elements")
       THEN ReturnFromRefresh(refresh.fetch)
       ELSE RaiseFromRefresh(refresh.fetch)
    /\ UNCHANGED <<cacheVars, ticks, diskVars, written>>
    /\ othersUnchanged

----------------------------------------------------------------------------
(* Request handlers *)

handlerUnchanged ==
    UNCHANGED <<phase, schedule_alive, ticks, refresh, diskVars, clock,
                written, unitVars>>

\* request.args.get('data') or request.args.get('query'), lines 175-178:
\* None when both are missing or empty
QueryOf(args) ==
    IF Has(args, "data") /\ args.data # <<>> THEN [text |-> args.data]
    ELSE IF Has(args, "query") /\ args.query # <<>> THEN [text |-> args.query]
    ELSE None

Response(handler, code, body) ==
    [handler |-> handler, status |-> code, body |-> body]

\* query_data up to the call of filter_data, lines 173-190
QueryRequest ==
    /\ phase = "serving"
    /\ query_thread.pc = "idle"
    /\ \E args \in RequestArgs :
        LET q == QueryOf(args)
            bbox == IF q = None THEN None ELSE parse_query(q.text)
        IN  IF q = None
            THEN /\ sent' = Response("query_data", 400,
                                     [text |-> "Missing query data"])
                 /\ UNCHANGED query_thread
            ELSE IF bbox = None
            THEN /\ sent' = Response("query_data", 400,
                                     [text |-> "Invalid query format"])
                 /\ UNCHANGED query_thread
            ELSE /\ query_thread' = [pc |-> "filter", bbox |-> bbox]
                 /\ UNCHANGED sent
    /\ UNCHANGED <<cacheVars, cache_lock, status_thread, reload_thread>>
    /\ handlerUnchanged

\* filter_data takes the lock, line 126
FilterAcquire ==
    /\ query_thread.pc = "filter"
    /\ cache_lock = "free"
    /\ cache_lock' = "query"
    /\ query_thread' = [query_thread EXCEPT !.pc = "reading"]
    /\ UNCHANGED <<cacheVars, status_thread, reload_thread, sent>>
    /\ handlerUnchanged

\* lines 127-154 under the lock, then lines 192-201: 503 without a cache, the
\* serialized result otherwise; an exception that leaves filter_data is
\* answered 500 by Flask
FilterRun ==
    /\ query_thread.pc = "reading"
    /\ LET b == query_thread.bbox
           r == filter_data(cached_data, b.south, b.west, b.north, b.east)
       IN  /\ cached_data' = r.cache
           /\ sent' =
                IF r.raised # "no"
                THEN Response("query_data", 500, [text |-> r.raised])
                ELSE IF r.value = None
                THEN Response("query_data", 503,
                              [text |-> "No cached data available"])
                ELSE Response("query_data", 200, r.value)
    /\ query_thread' = [pc |-> "idle"]
    /\ cache_lock' = "free"
    /\ UNCHANGED <<last_cache_update, cache_refresh_count, status_thread,
                   reload_thread>>
    /\ handlerUnchanged

\* Mutant: cache_status reads without taking the lock
StatusAcquireNoLock ==
    /\ phase = "serving"
    /\ status_thread.pc = "idle"
    /\ status_thread' = [status_thread EXCEPT !.pc = "reading"]
    /\ UNCHANGED <<cacheVars, cache_lock, query_thread, reload_thread, sent>>
    /\ handlerUnchanged

\* cache_status takes the lock, line 229
StatusAcquire ==
    /\ phase = "serving"
    /\ status_thread.pc = "idle"
    /\ cache_lock = "free"
    /\ cache_lock' = "status"
    /\ status_thread' = [status_thread EXCEPT !.pc = "reading"]
    /\ UNCHANGED <<cacheVars, query_thread, reload_thread, sent>>
    /\ handlerUnchanged

\* time.ctime(t): the text of a time, to the second
ctime(t) == [ctime |-> t.time]

\* lines 230-243 under the lock
StatusRun ==
    /\ status_thread.pc = "reading"
    /\ status_thread' = [pc |-> "idle"]
    /\ sent' =
         IF cached_data = None
         THEN Response("cache_status", 200,
                       [status |-> "No data cached",
                        elements_count |-> 0,
                        last_update |-> None,
                        cache_refresh_count |-> cache_refresh_count])
         ELSE IF ~Has(cached_data, "elements")
         THEN Response("cache_status", 500, [text |-> "KeyError"])
         ELSE Response("cache_status", 200,
                       [status |-> "Cache available",
                        elements_count |-> Len(cached_data.elements),
                        last_update |-> ctime(last_cache_update),
                        cache_refresh_count |-> cache_refresh_count])
    /\ cache_lock' = "free"
    /\ UNCHANGED <<cacheVars, query_thread, reload_thread>>
    /\ handlerUnchanged

\* force_reload calls update_pota_data(force=True), line 207: the
\* requests.get of the feed is in flight
ReloadRequest ==
    /\ phase = "serving"
    /\ reload_thread.pc = "idle"
    /\ reload_thread' = [pc |-> "csv", count_before |-> cache_refresh_count]
    /\ UNCHANGED <<cacheVars, cache_lock, query_thread, status_thread, sent>>
    /\ handlerUnchanged

\* The feed answers force_reload: fetch_and_parse_csv(True) saves nothing;
\* on a failure load_data() is the fallback; lines 208-219
ReloadResponse ==
    /\ reload_thread.pc = "csv"
    /\ \E csv \in CsvOutcomes :
        LET data == FetchedPotaData(csv, pota_file)
        IN  sent' = IF data # None
                    THEN Response("force_reload", 200,
                                  [status |-> "success",
                                   elements |-> Len(data.elements)])
                    ELSE Response("force_reload", 500, [status |-> "error"])
    /\ reload_thread' = [pc |-> "idle"]
    /\ UNCHANGED <<cacheVars, cache_lock, query_thread, status_thread>>
    /\ handlerUnchanged

Next ==
    \/ AdvanceClock
    \/ BeginRefresh
    \/ OverpassResponse
    \/ UpdatePotaData
    \/ CsvResponse
    \/ StoreMerged
    \/ StampUpdate
    \/ CountRefresh
    \/ LogRefresh
    \/ QueryRequest
    \/ FilterAcquire
    \/ FilterRun
    \/ StatusAcquire
    \/ StatusRun
    \/ ReloadRequest
    \/ ReloadResponse

Spec == Init /\ [][Next]_vars

\* The threads of the process keep running: a step that needs nothing but
\* the processor is taken.  Nothing is assumed of the steps that wait for
\* an upstream server (OverpassResponse, CsvResponse, ReloadResponse):
\* requests.get is called without a timeout (line 91, and line 42 of the
\* fetcher), so it returns only if the server answers or the connection
\* fails.  Nothing is assumed of the arrival of requests and ticks either.
SpecFair ==
    /\ Spec
    /\ WF_vars(UpdatePotaData)
    /\ WF_vars(StoreMerged)
    /\ WF_vars(StampUpdate)
    /\ WF_vars(CountRefresh)
    /\ WF_vars(LogRefresh)
    /\ WF_vars(FilterRun)
    /\ WF_vars(StatusRun)

----------------------------------------------------------------------------
(* merge_pota_data on its own: one call on an Overpass body and on the     *)
(* park feed that update_pota_data returns for a feed answer and a file.   *)

BoundedSeqs(S, n) == UNION { [1..k -> S] : k \in 0..n }

OsmNodeA ==
    [type |-> "node", lat |-> 2, lon |-> 2,
     tags |-> (POTA :> "A" @@ "name" :> "osm A" @@ "operator" :> "NPS")]
OsmNodeANoName ==
    [type |-> "node", lat |-> 8, lon |-> 8, tags |-> (POTA :> "A")]
OsmNodeNoPota ==
    [type |-> "node", lat |-> 2, lon |-> 8, tags |-> ("name" :> "osm X")]
OsmNodeNoTags == [type |-> "node", lat |-> 8, lon |-> 2]

MergeOsmElements ==
    {OsmNodeA, OsmNodeANoName, WayB, OsmNodeNoPota, OsmNodeNoTags}

MergeBodies ==
    { None, [version |-> "0.6", generator |-> "Overpass API"] }
    \cup { [version |-> "0.6", generator |-> "Overpass API", elements |-> e] :
             e \in BoundedSeqs(MergeOsmElements, MaxOsm) }

RowARenamed == <<"A", "Park A2", "1", "", "", <<"2">>, <<"8">>>>
RowANoName == <<"A", "", "1", "", "", <<"2">>, <<"2">>>>

MergeRows == {RowA, RowARenamed, RowANoName, RowB, RowInactive}

MergeCsvs ==
    { [ok |-> FALSE] }
    \cup { [ok |-> TRUE, rows |-> r] : r \in BoundedSeqs(MergeRows, MaxFeed) }

MergeFiles ==
    { None, ParsedCsv([ok |-> TRUE, rows |-> <<RowB>>]),
      ParsedCsv([ok |-> TRUE, rows |-> <<>>]) }

InitMerge ==
    /\ ServerInit
    /\ filterCall = [op |-> "none"]
    /\ parseCall = [op |-> "none"]
    /\ \E body \in MergeBodies, csv \in MergeCsvs, file \in MergeFiles :
         mergeCall = [op |-> "called", overpass_data |-> body, csv |-> csv,
                      file |-> file,
                      pota_data |-> FetchedPotaData(csv, file)]

serverVars ==
    <<cached_data, last_cache_update, cache_refresh_count, cache_lock,
      phase, schedule_alive, ticks, refresh, pota_file, last_fetch_file,
      clock, query_thread, status_thread, reload_thread, written, sent>>

MergeReturn ==
    /\ mergeCall.op = "called"
    /\ mergeCall' =
         [op |-> "returned", overpass_data |-> mergeCall.overpass_data,
          csv |-> mergeCall.csv, file |-> mergeCall.file,
          pota_data |-> mergeCall.pota_data,
          result |-> merge_pota_data(mergeCall.overpass_data,
                                     mergeCall.pota_data)]
    /\ UNCHANGED <<serverVars, filterCall, parseCall>>

NextMerge == MergeReturn

SpecMerge == InitMerge /\ [][NextMerge]_vars

----------------------------------------------------------------------------
(* Properties of the merge *)

ElementsOf(data) ==
    IF data # None /\ Has(data, "elements") THEN data.elements ELSE <<>>

MergeReturned == mergeCall.op = "returned" /\ mergeCall.result.raised = "no"

MergeOsm == ElementsOf(mergeCall.overpass_data)
MergeFeed == ElementsOf(mergeCall.pota_data)
Merged == ElementsOf(mergeCall.result.value)

RefOf(element) == element.tags[POTA]

FeedRefs == { RefOf(MergeFeed[i]) : i \in DOMAIN MergeFeed }

\* The data model makes the reference the unique key of the feed
FeedIsKeyed ==
    \A i, j \in DOMAIN MergeFeed :
        RefOf(MergeFeed[i]) = RefOf(MergeFeed[j]) => i = j

InFeed(element) == HasPota(element) /\ RefOf(element) \in FeedRefs

IsSynthetic(element) ==
    Has(element, "tags") /\ Has(element.tags, "unmapped_osm")

DedupHolds ==
    /\ \A i \in DOMAIN MergeOsm :
          ~InFeed(MergeOsm[i]) =>
              \A j \in DOMAIN Merged : Merged[j] # MergeOsm[i]
    /\ \A r \in FeedRefs :
          (\A i \in DOMAIN MergeOsm :
               ~(HasPota(MergeOsm[i]) /\ RefOf(MergeOsm[i]) = r))
          => Cardinality({ j \in DOMAIN Merged :
                             IsSynthetic(Merged[j]) /\ RefOf(Merged[j]) = r })
             = 1

\* C6 as claimed: for every OSM input and every park feed (keyed by
\* reference, empty and absent feeds included), an OSM element whose
\* reference is not in the feed is absent from the merged elements, and a
\* feed reference carried by no OSM element has exactly one synthetic node.
C6_DedupForEveryFeed == (MergeReturned /\ FeedIsKeyed) => DedupHolds

\* C6 amended: the same for every park feed with at least one record; an
\* empty or absent feed passes the OSM elements through instead.
C6_DedupForNonEmptyFeed ==
    (MergeReturned /\ FeedIsKeyed /\ MergeFeed # <<>>) => DedupHolds

\* C6 witness: a merge with a feed that drops an OSM element and adds a
\* synthetic node
C6_Witness ==
    /\ MergeReturned /\ FeedIsKeyed /\ MergeFeed # <<>>
    /\ \E i \in DOMAIN MergeOsm : HasPota(MergeOsm[i]) /\ ~InFeed(MergeOsm[i])
    /\ \E j \in DOMAIN Merged : IsSynthetic(Merged[j])
    /\ Len(Merged) = 1

IsNode(element) == Has(element, "type") /\ element.type = "node"

\* C7 as claimed: in every snapshot the merge returns, no two nodes carry
\* the same POTA reference.
C7_NodesHaveDistinctRefs ==
    (MergeReturned /\ FeedIsKeyed) =>
        \A j, k \in DOMAIN Merged :
            (/\ j # k
             /\ IsNode(Merged[j]) /\ HasPota(Merged[j])
             /\ IsNode(Merged[k]) /\ HasPota(Merged[k]))
            => RefOf(Merged[j]) # RefOf(Merged[k])

\* The indices of the OSM elements the merge retains, in order
RECURSIVE RetainedFrom(_)
RetainedFrom(i) ==
    IF i > Len(MergeOsm) THEN <<>>
    ELSE (IF InFeed(MergeOsm[i]) THEN <<i>> ELSE <<>>) \o RetainedFrom(i + 1)

SameButName(before, after) ==
    /\ DOMAIN after = DOMAIN before
    /\ \A f \in DOMAIN before : f # "tags" => after[f] = before[f]
    /\ DOMAIN after.tags = DOMAIN before.tags \cup {"name"}
    /\ \A t \in DOMAIN before.tags :
          t # "name" => after.tags[t] = before.tags[t]

\* C8: when a retained OSM element and a feed record share a reference and
\* the record's name is not empty, the merged element carries the record's
\* name, whatever name the OSM element had, and is otherwise unchanged.
C8_FeedNameWins ==
    (MergeReturned /\ FeedIsKeyed /\ MergeFeed # <<>>) =>
        LET retained == RetainedFrom(1)
        IN  /\ Len(Merged) >= Len(retained)
            /\ \A k \in DOMAIN retained : \A i \in DOMAIN MergeFeed :
                  (/\ RefOf(MergeFeed[i]) = RefOf(MergeOsm[retained[k]])
                   /\ MergeFeed[i].tags["name"] # "")
                  => /\ Merged[k].tags["name"] = MergeFeed[i].tags["name"]
                     /\ SameButName(MergeOsm[retained[k]], Merged[k])

\* C8 witness: an OSM node named "osm A" merged with the record "Park A",
\* next to an OSM node without a name
C8_Witness ==
    /\ MergeReturned /\ FeedIsKeyed
    /\ MergeOsm = <<OsmNodeA, OsmNodeANoName>>
    /\ Len(MergeFeed) = 1 /\ MergeFeed[1].tags["name"] = "Park A"
    /\ Merged[1].tags["name"] = "Park A"
    /\ Merged[2].tags["name"] = "Park A"

FeedOutage == ~mergeCall.csv.ok /\ mergeCall.file = None

FeedHasNoRecord ==
    mergeCall.pota_data # None /\ mergeCall.pota_data.elements = <<>>

\* C9: when the feed is absent (the fetch failed and there is no copy on
\* disk) or has no record, the merge returns the Overpass body as it is.
C9_EmptyFeedPassesThrough ==
    (mergeCall.op = "returned" /\ (FeedOutage \/ FeedHasNoRecord)) =>
        mergeCall.result =
            [raised |-> "no", value |-> mergeCall.overpass_data]

\* C9 witness: a feed outage and a feed of inactive parks only, each with
\* OSM elements that stay
C9_Witness ==
    /\ mergeCall.op = "returned"
    /\ \/ FeedOutage
       \/ FeedHasNoRecord /\ mergeCall.csv.ok /\ mergeCall.csv.rows # <<>>
    /\ Len(MergeOsm) = 2
    /\ Merged = MergeOsm

----------------------------------------------------------------------------
(* filter_data on its own: one call on a cache and a bounding box *)

Coords == 0..MaxCoord

FNodeMid ==
    [type |-> "node", lat |-> 1, lon |-> 1, tags |-> (POTA :> "A")]
FNodeCorner ==
    [type |-> "node", lat |-> 0, lon |-> 2, tags |-> (POTA :> "B")]
FNodeNoLat == [type |-> "node", lon |-> 1, tags |-> (POTA :> "A")]
FWayBounds ==
    [type |-> "way",
     bounds |-> [minlat |-> 0, minlon |-> 0, maxlat |-> 2, maxlon |-> 2],
     geometry |-> <<[lat |-> 1, lon |-> 1],
                    [lat |-> 2, lon |-> 2, tags |-> ("name" :> "gate")]>>,
     tags |-> (POTA :> "A")]
FWayGeometry ==
    [type |-> "way",
     geometry |-> <<[lat |-> 0, lon |-> 0], [lat |-> 1, lon |-> 2]>>,
     tags |-> ("name" :> "osm X")]
FRelationBounds ==
    [type |-> "relation",
     bounds |-> [minlat |-> 1, minlon |-> 1, maxlat |-> 2, maxlon |-> 2],
     members |-> <<[type |-> "way", ref |-> 1],
                   [type |-> "node", ref |-> 2],
                   [type |-> "way", ref |-> 3,
                    tags |-> ("name" :> "trail")]>>,
     tags |-> (POTA :> "B")]
FRelationGeometry ==
    [type |-> "relation",
     geometry |-> <<[lat |-> 1, lon |-> 1]>>,
     members |-> <<[type |-> "way", ref |-> 1]>>,
     tags |-> (POTA :> "B")]
FWayNoTags ==
    [type |-> "way",
     bounds |-> [minlat |-> 0, minlon |-> 0, maxlat |-> 0, maxlon |-> 0]]
FNoType == [id |-> 1]

FilterElements ==
    {FNodeMid, FNodeCorner, FNodeNoLat, FWayBounds, FWayGeometry,
     FRelationBounds, FRelationGeometry, FWayNoTags, FNoType}

FilterCaches ==
    { None, [version |-> "0.6", generator |-> "Overpass API"] }
    \cup { [version |-> "0.6", generator |-> "Overpass API", elements |-> e] :
             e \in BoundedSeqs(FilterElements, MaxSnap) }

InitFilter ==
    /\ ServerInit
    /\ mergeCall = [op |-> "none"]
    /\ parseCall = [op |-> "none"]
    /\ \E data \in FilterCaches, s \in Coords, w \in Coords,
          n \in Coords, e \in Coords :
         filterCall = [op |-> "called", data |-> data, south |-> s,
                       west |-> w, north |-> n, east |-> e]

FilterReturn ==
    /\ filterCall.op = "called"
    /\ filterCall' =
         [filterCall EXCEPT !.op = "returned"]
         @@ [result |-> filter_data(filterCall.data, filterCall.south,
                                    filterCall.west, filterCall.north,
                                    filterCall.east)]
    /\ UNCHANGED <<serverVars, mergeCall, parseCall>>

\* filter_data called once more, with the same box, on a cache that holds
\* the value the first call returned
FilterAgain ==
    /\ filterCall.op = "returned"
    /\ filterCall.result.raised = "no"
    /\ filterCall.result.value # None
    /\ filterCall' =
         [filterCall EXCEPT !.op = "refiltered"]
         @@ [again |-> filter_data(filterCall.result.value, filterCall.south,
                                   filterCall.west, filterCall.north,
                                   filterCall.east)]
    /\ UNCHANGED <<serverVars, mergeCall, parseCall>>

NextFilter ==
    \/ FilterReturn
    \/ FilterAgain

SpecFilter == InitFilter /\ [][NextFilter]_vars

FilterReturned ==
    /\ filterCall.op = "returned"
    /\ filterCall.result.raised = "no"
    /\ filterCall.result.value # None

Filtered == filterCall.result.value.elements

\* C5: the nodes of the result are exactly the nodes of the cache with
\* south <= lat <= north and west <= lon <= east, all four edges included.
C5_NodesWithinInclusiveBox ==
    FilterReturned =>
        LET InRectangle(element) ==
                /\ IsNode(element)
                /\ Has(element, "lat") /\ Has(element, "lon")
                /\ filterCall.south <= element.lat
                /\ element.lat <= filterCall.north
                /\ filterCall.west <= element.lon
                /\ element.lon <= filterCall.east
        IN  SelectSeq(Filtered, IsNode)
            = SelectSeq(filterCall.data.elements, InRectangle)

\* C5 witness: a box reduced to the point (1, 1) returns the node on that
\* point and not the other node of the cache
C5_Witness ==
    /\ FilterReturned
    /\ filterCall.south = 1 /\ filterCall.north = 1
    /\ filterCall.west = 1 /\ filterCall.east = 1
    /\ filterCall.data.elements = <<FNodeCorner, FNodeMid>>
    /\ Filtered = <<FNodeMid>>

----------------------------------------------------------------------------
(* parse_query on its own: one call on a query text *)

ParseChars == {"(", ")", ",", "-", "2", "C", "%", " "}

RECURSIVE Join(_)
Join(fields) ==
    IF Len(fields) = 0 THEN <<>>
    ELSE IF Len(fields) = 1 THEN fields[1]
    ELSE fields[1] \o <<",">> \o Join(Tail(fields))

\* urllib.parse.quote of the characters the parser looks for
RECURSIVE Quote(_)
Quote(s) ==
    IF s = <<>> THEN <<>>
    ELSE (IF s[1] = "(" THEN <<"%", "2", "8">>
          ELSE IF s[1] = ")" THEN <<"%", "2", "9">>
          ELSE IF s[1] = "," THEN <<"%", "2", "C">>
          ELSE <<s[1]>>) \o Quote(Tail(s))

GroupFields == { <<"2">>, <<"-", "8">>, <<" ", "9">>, <<"C">> }

\* clause(f1,...,fk) on its own, inside an enclosing group as Overpass QL
\* writes it, or without a clause, followed or not by more text
ListQueries ==
    { prefix \o <<"(">> \o Join(fields) \o <<")">> \o suffix :
        prefix \in { <<>>, <<"C">>, <<"(", "C">> },
        suffix \in { <<>>, <<")", "C">> },
        fields \in UNION { [1..k -> GroupFields] : k \in 3..MaxFields } }

ParseQueries ==
    BoundedSeqs(ParseChars, MaxRaw)
    \cup ListQueries
    \cup { Quote(q) : q \in ListQueries }

InitParse ==
    /\ ServerInit
    /\ mergeCall = [op |-> "none"]
    /\ filterCall = [op |-> "none"]
    /\ \E q \in ParseQueries : parseCall = [op |-> "called", query |-> q]

ParseReturn ==
    /\ parseCall.op = "called"
    /\ parseCall' = [op |-> "returned", query |-> parseCall.query,
                     result |-> parse_query(parseCall.query)]
    /\ UNCHANGED <<serverVars, mergeCall, filterCall>>

NextParse == ParseReturn

SpecParse == InitParse /\ [][NextParse]_vars

\* The query text as the parser reads it
ParsedText ==
    IF \E i \in DOMAIN parseCall.query : parseCall.query[i] = "%"
    THEN unquote(parseCall.query) ELSE parseCall.query

\* The parenthesized lists of exactly four floats that follow a clause
FourFloatLists ==
    LET t == ParsedText
    IN  { g \in (2..Len(t)) \X (2..Len(t)) :
            /\ g[1] < g[2]
            /\ t[g[1]] = "(" /\ t[g[2]] = ")"
            /\ \A k \in (g[1] + 1)..(g[2] - 1) : t[k] \notin {"(", ")"}
            /\ LET fields == Split(SubSeq(t, g[1] + 1, g[2] - 1), ",")
               IN  Len(fields) = 4 /\ \A k \in 1..4 : IsFloat(fields[k]) }

BoxOfList(g) ==
    LET fields == Split(SubSeq(ParsedText, g[1] + 1, g[2] - 1), ",")
    IN  [south |-> float(fields[1]), west |-> float(fields[2]),
         north |-> float(fields[3]), east |-> float(fields[4])]

\* C10 as claimed: whenever the query text holds a parenthesized list of
\* exactly four floats after a clause, alone or inside an enclosing group,
\* parse_query returns those four numbers as south, west, north, east.
C10_ParsesEveryFourFloatList ==
    (parseCall.op = "returned" /\ FourFloatLists # {}) =>
        \E g \in FourFloatLists : parseCall.result = BoxOfList(g)

----------------------------------------------------------------------------
(* Properties of the server *)

\* C1 as claimed: a call of filter_data leaves the cached snapshot as it
\* was, tags of geometry points and relation members included.
C1_FilterLeavesCacheUnchanged ==
    [][(query_thread.pc = "reading" /\ query_thread'.pc = "idle")
       => cached_data' = cached_data]_vars

\* C2 as claimed: during a scheduled call of fetch_overpass_data whose
\* Overpass fetch fails (connection error, bad status, body that is not
\* JSON or not a JSON object), the snapshot, the time of the last update
\* and the refresh counter keep their values.
C2_FailedFetchKeepsCache ==
    [][(phase = "serving" /\ cache_lock = "refresh"
        /\ refresh'.fetch = "failed")
       => /\ cached_data' = cached_data
          /\ last_cache_update' = last_cache_update
          /\ cache_refresh_count' = cache_refresh_count]_vars

\* C3 as claimed: while a scheduled refresh waits for Overpass or for the
\* CSV feed, the cache lock is free for filter_data and cache_status.
C3_LockFreeDuringNetworkCalls ==
    (phase = "serving" /\ refresh.pc \in {"overpass", "csv"})
        => cache_lock = "free"

\* C4: whenever filter_data or cache_status reads the cache, no refresh is
\* between its writes, and the snapshot, the time of the last update and
\* the counter were all written by the same call of fetch_overpass_data.
C4_ReadersSeeOneRefresh ==
    (query_thread.pc = "reading" \/ status_thread.pc = "reading")
        => /\ refresh.pc = "idle"
           /\ written.data = written.time
           /\ written.time = written.count

\* C4 witness: cache_status reads after the second refresh has published
C4_Witness ==
    /\ status_thread.pc = "reading"
    /\ written.data = 2
    /\ written.time = 2
    /\ written.count = 2
    /\ cache_refresh_count = 2
    /\ cached_data # None

\* C11 as claimed: query_data answers 400 only before filter_data is called
\* (query text missing or not parseable); a query that parses is answered
\* 503 exactly when no snapshot has been published yet (no refresh has
\* stored a value other than None) and is answered 200 with a filtered snapshot otherwise, so
\* after the first publication no parseable query is answered 503.
C11_QueryResponses ==
    [][/\ (query_thread.pc = "idle" /\ query_thread'.pc = "idle"
           /\ sent' # sent /\ sent'.handler = "query_data")
          => sent'.status = 400
       /\ (query_thread.pc = "reading" /\ query_thread'.pc = "idle")
          => /\ sent'.handler = "query_data"
             /\ sent'.status = IF written.snapshot = 0 THEN 503 ELSE 200
             /\ sent'.status = 200 => Has(sent'.body, "elements")]_vars

\* C12 as claimed: whenever force_reload answers 200, the cache holds a
\* snapshot published by that request and the refresh counter is one higher
\* than it was when the request came in.
C12_ForceReloadPublishes ==
    [][(reload_thread.pc = "csv" /\ reload_thread'.pc = "idle"
        /\ sent'.status = 200)
       => /\ cached_data' # None
          /\ cache_refresh_count' = reload_thread.count_before + 1]_vars

C14_CounterCountsPublications ==
    [][/\ cache_refresh_count' \in
              {cache_refresh_count, cache_refresh_count + 1}
       /\ cache_refresh_count' # cache_refresh_count
          => /\ refresh.pc = "count"
             /\ written.data = ticks
             /\ written.count # ticks
             /\ phase = "serving" => refresh.fetch = "ok"
       /\ refresh'.pc = "idle" => written'.count = written'.data]_vars

\* C15: the ways and relations with bounds in the result are exactly those
\* of the cache with (minlat or maxlat within [south, north]) and (minlon or
\* maxlon within [west, east]), in the order of the cache and the same but
\* for the tags written into geometry and members; the geometry of such an
\* element has no part in the decision.
C15_BoundsCornerTest ==
    FilterReturned =>
        LET HasBounds(element) ==
                /\ Has(element, "type")
                /\ element.type \in {"way", "relation"}
                /\ Has(element, "bounds")
            Within(x, low, high) == low <= x /\ x <= high
            CornerTest(element) ==
                /\ HasBounds(element)
                /\ \/ Within(element.bounds.minlat,
                             filterCall.south, filterCall.north)
                   \/ Within(element.bounds.maxlat,
                             filterCall.south, filterCall.north)
                /\ \/ Within(element.bounds.minlon,
                             filterCall.west, filterCall.east)
                   \/ Within(element.bounds.maxlon,
                             filterCall.west, filterCall.east)
            Plain(element) ==
                [k \in DOMAIN element \ {"geometry", "members"} |->
                    element[k]]
            PlainSeq(elements) ==
                [i \in DOMAIN elements |-> Plain(elements[i])]
        IN  PlainSeq(SelectSeq(Filtered, HasBounds))
            = PlainSeq(SelectSeq(filterCall.data.elements, CornerTest))

\* C15 witness: the box is the point (1, 1).  The way with bounds
\* (0, 0)-(2, 2) has a geometry point on (1, 1) and no corner in the box:
\* it is left out; the relation with bounds (1, 1)-(2, 2) is returned.
C15_Witness ==
    /\ FilterReturned
    /\ filterCall.data.elements = <<FWayBounds, FRelationBounds>>
    /\ filterCall.south = 1 /\ filterCall.north = 1
    /\ filterCall.west = 1 /\ filterCall.east = 1
    /\ PointInBox(FWayBounds.geometry[1], 1, 1, 1, 1)
    /\ Filtered = <<add_pota_tag_to_subelements(FRelationBounds)>>

\* The cache elements before and after the call, index by index, for the
\* ways and relations the call returned
SubTagsKept(before, after) ==
    /\ DOMAIN after = DOMAIN before \cup {"tags"}
    /\ \A k \in DOMAIN before \ {"tags"} : after[k] = before[k]

\* C16 as claimed: in a returned way (relation), the geometry points (the
\* members of kind way) that had no tags carry the POTA value of the parent
\* ("yes" when the parent has none) as their only tag, the sub-elements
\* that already had tags are returned as they were, and the members of
\* another kind receive nothing.
C16_OnlyUntaggedSubelementsTagged ==
    FilterReturned =>
        \A i \in DOMAIN filterCall.data.elements :
            LET before == filterCall.data.elements[i]
                after == filterCall.result.cache.elements[i]
                value == GetOr(before.tags, POTA, "yes")
                Claimed(b, a) ==
                    IF Has(b, "tags") THEN a = b
                    ELSE /\ SubTagsKept(b, a)
                         /\ a.tags = (POTA :> value)
                subs == IF before.type = "way" THEN "geometry" ELSE "members"
            IN  (\E j \in DOMAIN Filtered : Filtered[j] = after)
                /\ after.type \in {"way", "relation"}
                /\ Has(before, subs)
                => /\ DOMAIN after[subs] = DOMAIN before[subs]
                   /\ \A j \in DOMAIN before[subs] :
                        IF subs = "members" /\ before[subs][j].type # "way"
                        THEN after[subs][j] = before[subs][j]
                        ELSE Claimed(before[subs][j], after[subs][j])

\* C16 amended: every geometry point of a returned way and every member of
\* kind way of a returned relation carries the POTA value of the parent
\* ("yes" when the parent has none); a sub-element that had tags keeps its
\* other tags, one that had none gets a tags dict with that single tag; the
\* members of another kind and all other fields are as they were.
C16_EverySubelementTagged ==
    FilterReturned =>
        \A i \in DOMAIN filterCall.data.elements :
            LET before == filterCall.data.elements[i]
                after == filterCall.result.cache.elements[i]
                value == GetOr(before.tags, POTA, "yes")
                old(b) == IF Has(b, "tags") THEN b.tags ELSE EmptyDict
                Tagged(b, a) ==
                    /\ SubTagsKept(b, a)
                    /\ DOMAIN a.tags = DOMAIN old(b) \cup {POTA}
                    /\ a.tags[POTA] = value
                    /\ \A k \in DOMAIN old(b) \ {POTA} : a.tags[k] = old(b)[k]
                subs == IF before.type = "way" THEN "geometry" ELSE "members"
            IN  (\E j \in DOMAIN Filtered : Filtered[j] = after)
                /\ after.type \in {"way", "relation"}
                => /\ DOMAIN after = DOMAIN before
                   /\ \A k \in DOMAIN before \ {subs} : after[k] = before[k]
                   /\ Has(before, subs)
                      => /\ DOMAIN after[subs] = DOMAIN before[subs]
                         /\ \A j \in DOMAIN before[subs] :
                              IF subs = "members"
                                 /\ before[subs][j].type # "way"
                              THEN after[subs][j] = before[subs][j]
                              ELSE Tagged(before[subs][j], after[subs][j])

\* C16 witness: the way with bounds is returned; its first point had no
\* tags and has the single tag POTA = "A", its second point had the tag
\* name = "gate" and has both
C16_Witness ==
    /\ FilterReturned
    /\ filterCall.data.elements = <<FWayBounds>>
    /\ Len(Filtered) = 1
    /\ Filtered[1].geometry[1].tags = (POTA :> "A")
    /\ Filtered[1].geometry[2].tags = ("name" :> "gate") @@ (POTA :> "A")

\* C17 as claimed: every call of fetch_overpass_data that has started ends,
\* whatever the upstream servers do.
C17_RefreshTickEnds == (refresh.pc # "idle") ~> (refresh.pc = "idle")

\* C18 as claimed: whatever the upstream servers answer, the scheduler loop
\* of a server that serves requests is still running, so the next tick on
\* which both upstreams answer publishes.
C18_SchedulerSurvives == phase = "serving" => schedule_alive

\* C19 as claimed: whenever no refresh is between its writes, the snapshot
\* is present exactly when the refresh counter is above 0 and exactly when
\* the time of the last update is set; and a snapshot that is present is
\* never replaced by None.
C19_CacheFieldsAgree ==
    [][/\ (phase' = "serving" /\ cache_lock' # "refresh")
          => /\ cached_data' # None <=> cache_refresh_count' > 0
             /\ cache_refresh_count' > 0 <=> last_cache_update' # None
       /\ (phase = "serving" /\ cached_data # None)
          => cached_data' # None]_vars

\* C20 as claimed: every snapshot a refresh has published has an elements
\* list, so filter_data and cache_status never fail on a cache that is not
\* empty: neither answers 500.
C20_PublishedHasElements ==
    /\ (phase = "serving" /\ cache_lock # "refresh" /\ cached_data # None)
          => Has(cached_data, "elements")
    /\ (sent # None /\ sent.handler \in {"query_data", "cache_status"})
          => sent.status # 500

====
